---- MODULE Spec2Model ----
(***************************************************************************)
(* Model of the metrics and risk aggregation logic of the employee         *)
(* wellness dashboard (src/app.py): calculate_metrics and the              *)
(* mood-performance correlation of show_dashboard, over the three          *)
(* module-level data frames employees_df, check_ins_df, performance_df,    *)
(* and the login and page navigation of main over st.session_state.        *)
(*                                                                         *)
(* Representation.                                                         *)
(*  - A data frame is a sequence of records (its rows, in row order).      *)
(*  - A date is a day ordinal: 1 is 1 January of a non-leap year, 366 is   *)
(*    1 January of the next (non-leap) year.  date - timedelta(days=k) is  *)
(*    integer subtraction.                                                 *)
(*  - An optional argument (Python None or a value) is a sequence of       *)
(*    length 0 or 1.                                                       *)
(*  - A pandas mean of an integer column is the float quotient sum/n.  It  *)
(*    is kept exactly, as the record [sum, n]; n = 0 is NaN.  Comparisons  *)
(*    of a mean against an integer threshold are done by cross             *)
(*    multiplication, which agrees with the float comparison for the       *)
(*    magnitudes involved.  The mood score, half the sum of two means of   *)
(*    the same n rows, is kept as the fraction [sum, 2n]: the float sum of *)
(*    two correctly rounded quotients whose exact sum is the integer 10 or *)
(*    14 is that integer, so the float score is 5.0 or 7.0 exactly when    *)
(*    the fraction is 5 or 7.                                              *)
(*  - An e-mail address is the pair <<local, domain>> of the text before   *)
(*    and after its last '@'.                                              *)
(*  - st.session_state is a function from its keys to their values; a      *)
(*    script run that ends in st.rerun() and the run it starts are one     *)
(*    step.                                                                *)
(***************************************************************************)
EXTENDS Integers, Sequences, FiniteSets, TLC

VARIABLES employees_df, check_ins_df, performance_df, session_state, out

vars == <<employees_df, check_ins_df, performance_df, session_state, out>>

(***************************************************************************)
(* Bounds of the model.                                                    *)
(***************************************************************************)
\* Most check-in rows / performance rows of a snapshot, per specification.
MaxRiskRows == 2
MaxWindowRows == 3
MaxScopeRows == 3
MaxChartPerf == 2
MaxMoodRows == 2

(***************************************************************************)
(* Generic helpers.                                                        *)
(***************************************************************************)
SeqsUpTo(S, n) == UNION {[1..k -> S] : k \in 0..n}

RECURSIVE SumSeq(_)
SumSeq(s) == IF s = << >> THEN 0 ELSE Head(s) + SumSeq(Tail(s))

Column(frame, col) == [i \in 1..Len(frame) |-> frame[i][col]]

Range(s) == {s[i] : i \in 1..Len(s)}

\* Python None and a present value v.
None == << >>
Some(v) == <<v>>

\* Python truthiness of an optional int: None and 0 are false.
TruthyInt(x) == x /= None /\ x[1] /= 0
\* Python truthiness of an optional str: None and "" are false.
TruthyStr(x) == x /= None /\ x[1] /= ""

(***************************************************************************)
(* pandas / datetime primitives.                                           *)
(***************************************************************************)
\* The mean of the per-employee means of a column, as the fraction
\* (sum over employees e of s_e * product of the other employees' row counts)
\* / (number of employees * product of all row counts).
RECURSIVE MeanOfMeansOver(_, _, _)
MeanOfMeansOver(frame, col, ids) ==
    IF ids = {} THEN [sum |-> 0, n |-> 1]
    ELSE LET e    == CHOOSE x \in ids : TRUE
             rows == SelectSeq(frame, LAMBDA r : r.employee_id = e)
             rest == MeanOfMeansOver(frame, col, ids \ {e})
         IN  [sum |-> SumSeq(Column(rows, col)) * rest.n + rest.sum * Len(rows),
              n   |-> Len(rows) * rest.n]

MeanOfMeans(frame, col) ==
    LET ids == Range(Column(frame, "employee_id"))
        mm  == MeanOfMeansOver(frame, col, ids)
    IN  [sum |-> mm.sum, n |-> Cardinality(ids) * mm.n]

\* Series.mean() of an integer column: sum / n; NaN (n = 0) when empty.
Mean(frame, col) == [sum |-> SumSeq(Column(frame, col)), n |-> Len(frame)]

\* m > k and m < k for a float mean m and an integer k; both are False on NaN.
MeanGt(m, k) == m.n > 0 /\ m.sum > k * m.n
MeanLt(m, k) == m.n > 0 /\ m.sum < k * m.n

\* Series.max() of a non-empty date column.
MaxDate(frame) ==
    CHOOSE d \in Range(Column(frame, "date")) :
        \A e \in Range(Column(frame, "date")) : e <= d

\* Days of the year before the first day of each month (non-leap year).
DaysBefore == <<0, 31, 59, 90, 120, 151, 181, 212, 243, 273, 304, 334>>

\* pd.to_datetime(date).dt.month
MonthOf(date) ==
    LET doy == ((date - 1) % 365) + 1
    IN  CHOOSE m \in 1..12 :
            /\ DaysBefore[m] < doy
            /\ (m = 12 \/ doy <= DaysBefore[m + 1])

(***************************************************************************)
(* calculate_metrics (src/app.py lines 81-121).                            *)
(***************************************************************************)
\* employees_df[employees_df['department'] == department]['id'].tolist()
DeptIds(department) ==
    Range(Column(SelectSeq(employees_df, LAMBDA e : e.department = department), "id"))

\* The scope resolution of check_ins_df: `if employee_id: ... elif department:
\* ... else: ...`.  Both tests are Python truth tests of the argument.
ScopeCheckIns(employee_id, department) ==
    IF TruthyInt(employee_id)
    THEN SelectSeq(check_ins_df, LAMBDA r : r.employee_id = employee_id[1])
    ELSE IF TruthyStr(department)
         THEN SelectSeq(check_ins_df,
                        LAMBDA r : r.employee_id \in DeptIds(department[1]))
         ELSE check_ins_df

\* The same scope resolution, of performance_df.
ScopePerformance(employee_id, department) ==
    IF TruthyInt(employee_id)
    THEN SelectSeq(performance_df, LAMBDA r : r.employee_id = employee_id[1])
    ELSE IF TruthyStr(department)
         THEN SelectSeq(performance_df,
                        LAMBDA r : r.employee_id \in DeptIds(department[1]))
         ELSE performance_df

\* emp_check_ins['date'].max()
LatestDate(emp_check_ins) == MaxDate(emp_check_ins)

\* A frame without the later rows of an employee and date already seen.
RECURSIVE DropDuplicates(_)
DropDuplicates(frame) ==
    IF frame = << >> THEN << >>
    ELSE LET init == SubSeq(frame, 1, Len(frame) - 1)
             last == frame[Len(frame)]
         IN  IF \E j \in 1..Len(init) :
                    /\ init[j].employee_id = last.employee_id
                    /\ init[j].date = last.date
             THEN DropDuplicates(init)
             ELSE Append(DropDuplicates(init), last)

\* A window that counts one row per employee and day.
WindowSinceDedup(emp_check_ins, since) ==
    DropDuplicates(SelectSeq(emp_check_ins, LAMBDA r : r.date >= since))

\* A window that leaves out the rows dated exactly `since`.
WindowSinceStrict(emp_check_ins, since) ==
    SelectSeq(emp_check_ins, LAMBDA r : r.date > since)

\* emp_check_ins[emp_check_ins['date'] >= since]
WindowSince(emp_check_ins, since) ==
    SelectSeq(emp_check_ins, LAMBDA r : r.date >= since)

\* frame[['stress', 'energy', 'motivation', 'work_enjoyment']].mean()
SignalMeans(frame) ==
    [stress         |-> Mean(frame, "stress"),
     energy         |-> Mean(frame, "energy"),
     motivation     |-> Mean(frame, "motivation"),
     work_enjoyment |-> Mean(frame, "work_enjoyment")]

\* A rule table whose High thresholds are not strict.
BurnoutRiskNonStrict(weekly_avg) ==
    IF ~MeanLt(weekly_avg.stress, 7) \/ ~MeanGt(weekly_avg.energy, 4)
    THEN "High"
    ELSE IF MeanGt(weekly_avg.stress, 5) \/ MeanLt(weekly_avg.energy, 5)
         THEN "Moderate"
         ELSE "Low"

\* The burnout rule table.
BurnoutRisk(weekly_avg) ==
    IF MeanGt(weekly_avg.stress, 7) \/ MeanLt(weekly_avg.energy, 4)
    THEN "High"
    ELSE IF MeanGt(weekly_avg.stress, 5) \/ MeanLt(weekly_avg.energy, 5)
         THEN "Moderate"
         ELSE "Low"

\* latest_performance['kpi'].mean() where latest_performance are the scoped
\* rows of the wall clock's month (datetime.now().month).
AvgKpi(emp_performance, now_month) ==
    Mean(SelectSeq(emp_performance, LAMBDA r : r.month = now_month), "kpi")

\* The whole call.  With no scoped check-in, Series.max() of the empty date
\* column is NaN and `latest_date - timedelta(days=7)` raises TypeError: the
\* call ends there with no bundle.  The record keeps the call's locals.
calculate_metrics(employee_id, department, now_month) ==
    LET emp_check_ins   == ScopeCheckIns(employee_id, department)
        emp_performance == ScopePerformance(employee_id, department)
    IN  IF emp_check_ins = << >>
        THEN [error           |-> "TypeError",
              emp_check_ins   |-> emp_check_ins,
              emp_performance |-> emp_performance]
        ELSE LET latest_date       == LatestDate(emp_check_ins)
                 week_ago          == latest_date - 7
                 month_ago         == latest_date - 30
                 weekly_check_ins  == WindowSince(emp_check_ins, week_ago)
                 monthly_check_ins == WindowSince(emp_check_ins, month_ago)
                 weekly_avg        == SignalMeans(weekly_check_ins)
                 monthly_avg       == SignalMeans(monthly_check_ins)
             IN  [error             |-> "none",
                  emp_check_ins     |-> emp_check_ins,
                  emp_performance   |-> emp_performance,
                  weekly_check_ins  |-> weekly_check_ins,
                  monthly_check_ins |-> monthly_check_ins,
                  weekly_avg        |-> weekly_avg,
                  monthly_avg       |-> monthly_avg,
                  burnout_risk      |-> BurnoutRisk(weekly_avg),
                  avg_kpi           |-> AvgKpi(emp_performance, now_month),
                  latest_date       |-> latest_date]

\* The returned dict: the five keys of the bundle.
Bundle(m) ==
    [weekly_avg   |-> m.weekly_avg,
     monthly_avg  |-> m.monthly_avg,
     burnout_risk |-> m.burnout_risk,
     avg_kpi      |-> m.avg_kpi,
     latest_date  |-> m.latest_date]

(***************************************************************************)
(* show_dashboard (src/app.py lines 124-308): the data it computes.        *)
(***************************************************************************)
\* The elements of a finite set of integers, ascending (groupby sorts its keys).
RECURSIVE SortedSeq(_)
SortedSeq(S) ==
    IF S = {} THEN << >>
    ELSE LET lo == CHOOSE x \in S : \A y \in S : x <= y
         IN  <<lo>> \o SortedSeq(S \ {lo})

\* Day of the week of a date, Monday = 1; day 1 is Wednesday 1 January 2025.
IsoWeekday(date) == ((date + 1) % 7) + 1

\* pd.to_datetime(date).dt.isocalendar().week for the years 2025 and 2026:
\* 2025 has 52 ISO weeks (its last days belong to week 1 of 2026) and 2026
\* has 53.
IsoWeek(date) ==
    LET doy == ((date - 1) % 365) + 1
        w   == (doy - IsoWeekday(date) + 10) \div 7
    IN  IF w = 53 /\ date <= 365 THEN 1 ELSE w

\* The derived key column of a check-in frame: 'month' or 'week'.
KeyOf(date, key) == IF key = "month" THEN MonthOf(date) ELSE IsoWeek(date)

\* frame[key] = ...: the frame with the derived column key added to its rows.
AddColumn(frame, key) ==
    [i \in 1..Len(frame) |->
        [f \in DOMAIN frame[i] \cup {key} |->
            IF f = key THEN KeyOf(frame[i].date, key) ELSE frame[i][f]]]

\* check_ins_df, had the derived column been assigned to it and not to a
\* working frame.
CheckInsAssignedInPlace(key) == AddColumn(check_ins_df, key)

\* check_ins_df after the assignment `working['month'|'week'] = ...`.  The
\* working frame is the result of a boolean-mask selection (lines 182, 239),
\* a new frame object: the module's check_ins_df gets no column.
CheckInsAfterAssign(key) == check_ins_df

\* frame.groupby(key)[signals].mean().reset_index(): one row per key, keys
\* ascending.
GroupSignalMeans(frame, key) ==
    LET keys == SortedSeq({KeyOf(frame[i].date, key) : i \in 1..Len(frame)})
    IN  [k \in 1..Len(keys) |->
            LET rows == SelectSeq(frame, LAMBDA r : KeyOf(r.date, key) = keys[k])
            IN  [key            |-> keys[k],
                 stress         |-> Mean(rows, "stress"),
                 energy         |-> Mean(rows, "energy"),
                 motivation     |-> Mean(rows, "motivation"),
                 work_enjoyment |-> Mean(rows, "work_enjoyment")]]

\* emp_check_ins['month'] = ...dt.month; emp_check_ins.groupby('month')...
MonthlyMood(emp_check_ins) == GroupSignalMeans(emp_check_ins, "month")

\* dept_check_ins['week'] = ...isocalendar().week; dept_check_ins.groupby('week')...
WeeklyMood(dept_check_ins) == GroupSignalMeans(dept_check_ins, "week")

\* dept_performance.groupby('month')[['kpi']].mean().reset_index()
WeeklyPerformance(dept_performance) ==
    LET months == SortedSeq(Range(Column(dept_performance, "month")))
    IN  [k \in 1..Len(months) |->
            [month |-> months[k],
             kpi   |-> Mean(SelectSeq(dept_performance,
                                      LAMBDA r : r.month = months[k]), "kpi")]]

\* A left join: a month without performance row is kept, with no kpi (0).
RECURSIVE MergeLeft(_, _)
MergeLeft(monthly_mood, emp_performance) ==
    IF monthly_mood = << >> THEN << >>
    ELSE LET l       == Head(monthly_mood)
             matches == SelectSeq(emp_performance, LAMBDA r : r.month = l.key)
             kept    == IF matches = << >>
                        THEN <<[employee_id |-> 0, month |-> l.key, kpi |-> 0]>>
                        ELSE matches
         IN  [i \in 1..Len(kept) |->
                 [month          |-> l.key,
                  stress         |-> l.stress,
                  energy         |-> l.energy,
                  motivation     |-> l.motivation,
                  work_enjoyment |-> l.work_enjoyment,
                  employee_id    |-> kept[i].employee_id,
                  kpi            |-> kept[i].kpi]]
             \o MergeLeft(Tail(monthly_mood), emp_performance)

\* pd.merge(monthly_mood, emp_performance, on='month'): the inner join.  The
\* rows follow the left frame's order; the matches of one left row follow
\* the right frame's order.
RECURSIVE Merge(_, _)
Merge(monthly_mood, emp_performance) ==
    IF monthly_mood = << >> THEN << >>
    ELSE LET l       == Head(monthly_mood)
             matches == SelectSeq(emp_performance, LAMBDA r : r.month = l.key)
         IN  [i \in 1..Len(matches) |->
                 [month          |-> l.key,
                  stress         |-> l.stress,
                  energy         |-> l.energy,
                  motivation     |-> l.motivation,
                  work_enjoyment |-> l.work_enjoyment,
                  employee_id    |-> matches[i].employee_id,
                  kpi            |-> matches[i].kpi]]
             \o Merge(Tail(monthly_mood), emp_performance)

\* The position of the last occurrence of the maximum.
IdxMaxLast(col) ==
    CHOOSE i \in 1..Len(col) :
        /\ \A j \in 1..Len(col) : col[j] <= col[i]
        /\ \A j \in (i + 1)..Len(col) : col[j] < col[i]

\* Series.idxmax() of a non-empty column under the default RangeIndex: the
\* position of the first occurrence of the maximum.
IdxMax(col) ==
    CHOOSE i \in 1..Len(col) :
        /\ \A j \in 1..Len(col) : col[j] <= col[i]
        /\ \A j \in 1..(i - 1) : col[j] < col[i]

\* merged_data.loc[merged_data['kpi'].idxmax(), 'month']
MaxKpiMonth(merged_data) == merged_data[IdxMax(Column(merged_data, "kpi"))].month

\* The individual view (lines 180-232).  idxmax of an empty column raises
\* ValueError.
IndividualView(employee_id) ==
    LET emp_check_ins   == SelectSeq(check_ins_df,
                                     LAMBDA r : r.employee_id = employee_id[1])
        emp_performance == SelectSeq(performance_df,
                                     LAMBDA r : r.employee_id = employee_id[1])
        monthly_mood    == MonthlyMood(emp_check_ins)
        merged_data     == Merge(monthly_mood, emp_performance)
    IN  IF merged_data = << >>
        THEN [error         |-> "ValueError",
              view          |-> "individual",
              emp_check_ins |-> AddColumn(emp_check_ins, "month"),
              monthly_mood  |-> monthly_mood,
              merged_data   |-> merged_data]
        ELSE [error         |-> "none",
              view          |-> "individual",
              emp_check_ins |-> AddColumn(emp_check_ins, "month"),
              monthly_mood  |-> monthly_mood,
              merged_data   |-> merged_data,
              max_kpi_month |-> MaxKpiMonth(merged_data)]

\* The team overview of a manager (lines 282-308): calculate_metrics for each
\* employee of the department, in row order; the first call that raises ends
\* the loop.
RECURSIVE TeamStatus(_, _)
TeamStatus(ids, now_month) ==
    IF ids = << >> THEN [error |-> "none", rows |-> << >>]
    ELSE LET emp_metrics == calculate_metrics(Some(Head(ids)), None, now_month)
         IN  IF emp_metrics.error /= "none"
             THEN [error |-> emp_metrics.error, rows |-> << >>]
             ELSE LET rest == TeamStatus(Tail(ids), now_month)
                  IN  [error |-> rest.error,
                       rows  |-> IF rest.error /= "none" THEN << >>
                                 ELSE <<[emp_id       |-> Head(ids),
                                         burnout_risk |-> emp_metrics.burnout_risk,
                                         latest_date  |-> emp_metrics.latest_date,
                                         avg_kpi      |-> emp_metrics.avg_kpi]>>
                                      \o rest.rows]

\* The team view (lines 234-274, 282-308) for the department picked in the
\* select box.
TeamView(dept, is_manager, now_month) ==
    LET dept_metrics == calculate_metrics(None, Some(dept), now_month)
        ids          == Column(SelectSeq(employees_df,
                                         LAMBDA e : e.department = dept), "id")
        dept_check_ins   == SelectSeq(check_ins_df,
                                      LAMBDA r : r.employee_id \in Range(ids))
        dept_performance == SelectSeq(performance_df,
                                      LAMBDA r : r.employee_id \in Range(ids))
        team_status  == IF is_manager THEN TeamStatus(ids, now_month)
                        ELSE [error |-> "none", rows |-> << >>]
    IN  IF dept_metrics.error /= "none"
        THEN [error |-> dept_metrics.error, view |-> "team", dept |-> dept]
        ELSE [error              |-> team_status.error,
              view               |-> "team",
              dept               |-> dept,
              dept_check_ins     |-> AddColumn(dept_check_ins, "week"),
              weekly_mood        |-> WeeklyMood(dept_check_ins),
              weekly_performance |-> WeeklyPerformance(dept_performance),
              team_status        |-> team_status.rows]

\* mood_score = (weekly_avg['energy'] + weekly_avg['motivation']) / 2
MoodScore(weekly_avg) ==
    [sum |-> weekly_avg.energy.sum * weekly_avg.motivation.n
                 + weekly_avg.motivation.sum * weekly_avg.energy.n,
     n   |-> 2 * weekly_avg.energy.n * weekly_avg.motivation.n]

\* The buckets with the thresholds included.
MoodEmojiNonStrict(mood_score) ==
    IF mood_score.n > 0 /\ mood_score.sum >= 7 * mood_score.n THEN "smile"
    ELSE IF mood_score.n > 0 /\ mood_score.sum >= 5 * mood_score.n THEN "neutral"
    ELSE "sad"

\* The emoji of lines 137-142, by name: smiling, neutral and sad face.
MoodEmoji(mood_score) ==
    IF MeanGt(mood_score, 7) THEN "smile"
    ELSE IF MeanGt(mood_score, 5) THEN "neutral"
    ELSE "sad"

\* show_dashboard(employee_id, is_manager), dept being the select box's value.
show_dashboard(employee_id, is_manager, dept, now_month) ==
    LET metrics == calculate_metrics(employee_id, None, now_month)
    IN  IF metrics.error /= "none"
        THEN [error |-> metrics.error, view |-> "none", metrics |-> metrics]
        ELSE LET mood_score == MoodScore(metrics.weekly_avg)
                 chart == IF TruthyInt(employee_id)
                          THEN IndividualView(employee_id)
                          ELSE TeamView(dept, is_manager, now_month)
             IN  [error      |-> chart.error,
                  view       |-> chart.view,
                  metrics    |-> metrics,
                  mood_score |-> mood_score,
                  mood_emoji |-> MoodEmoji(mood_score),
                  chart      |-> chart]

\* check_ins_df after a run of show_dashboard with the given outcome: the
\* column assignment of line 186 or 247, when the run gets there.
CheckInsAfterDashboard(result) ==
    IF result.view = "individual" THEN CheckInsAfterAssign("month")
    ELSE IF result.view = "team" /\ "dept_check_ins" \in DOMAIN result.chart
         THEN CheckInsAfterAssign("week")
         ELSE check_ins_df

(***************************************************************************)
(* Login and navigation: show_login and main over st.session_state.        *)
(*                                                                         *)
(* A click is the button pressed in a script run, with the text typed in   *)
(* the inputs next to it; NoClick is a run without a pressed button.  A    *)
(* run gives the session state it leaves, whether it ended in st.rerun(),  *)
(* and the page it drew.  dashboard[id, is_manager] is the outcome of      *)
(* show_dashboard(id, is_manager) at the time of the run.                  *)
(***************************************************************************)
NoClick == [kind |-> "none"]

\* st.session_state.<key> = value, for the keys and values of a record.
SetKeys(state, values) ==
    [k \in DOMAIN state \cup DOMAIN values |->
        IF k \in DOMAIN values THEN values[k] ELSE state[k]]

\* email.endswith('@company.com')
EndsWithCompany(email) == email[2] = "company.com"

\* The test of the credentials without the password.
AuthenticatesAnyPassword(email, password) == EndsWithCompany(email)

\* email.endswith('@company.com') and password == "password"
Authenticates(email, password) ==
    EndsWithCompany(email) /\ password = "password"

\* not ('logged_in' not in st.session_state or not st.session_state.logged_in)
LoggedIn(state) == "logged_in" \in DOMAIN state /\ state.logged_in

\* show_login(): the rows of the typed address, the first of which gives the
\* session its employee.
show_login(state, click) ==
    IF click.kind /= "login"
    THEN [state |-> state, rerun |-> FALSE, page |-> "login",
          message |-> "none", result |-> None]
    ELSE IF ~Authenticates(click.email, click.password)
    THEN [state |-> state, rerun |-> FALSE, page |-> "login",
          message |-> "Invalid credentials", result |-> None]
    ELSE LET emp == SelectSeq(employees_df, LAMBDA e : e.email = click.email)
         IN  IF emp = << >>
             THEN [state |-> state, rerun |-> FALSE, page |-> "login",
                   message |-> "Employee not found in records", result |-> None]
             ELSE [state   |-> SetKeys(state,
                                   [logged_in             |-> TRUE,
                                    current_employee_id   |-> emp[1].id,
                                    current_employee_name |-> emp[1].name,
                                    is_manager            |-> emp[1].manager,
                                    current_page          |-> "dashboard"]),
                   rerun   |-> TRUE,
                   page    |-> "login",
                   message |-> "none",
                   result  |-> None]

\* The Manager View button drawn in every session.
ManagerButtonAlways(state) == TRUE

\* st.session_state.is_manager and st.button("Manager View"): the button is
\* drawn for a manager only.
ManagerButton(state) == state.is_manager

\* The pages of the sidebar buttons and of the dashboard's quick actions.
SidebarPages ==
    {"dashboard", "check_in", "ai_insights", "compensation", "engagement",
     "manager"}
QuickPages == {"check_in", "ai_insights", "compensation"}

\* The page routing of main for a logged-in session, with the buttons of the
\* dashboard and of the check-in form.
PageRouting(state, click, dashboard) ==
    LET goto(page) == [state |-> SetKeys(state, [current_page |-> page]),
                       rerun |-> TRUE, page |-> state.current_page,
                       message |-> "none", result |-> None]
        drawn(result) == [state |-> state, rerun |-> FALSE,
                          page |-> IF state.current_page \in SidebarPages
                                   THEN state.current_page ELSE "blank",
                          message |-> "none", result |-> result]
    IN  IF state.current_page = "dashboard"
        THEN LET result == dashboard[state.current_employee_id, state.is_manager]
             IN  IF click.kind = "quick" /\ result.metrics.error = "none"
                 THEN goto(click.page)
                 ELSE drawn(Some(result))
        ELSE IF state.current_page = "check_in" /\ click.kind = "submit"
        THEN goto("dashboard")
        ELSE drawn(None)

\* main(): one script run.
main(state, click, dashboard) ==
    LET s == IF "current_page" \in DOMAIN state THEN state
             ELSE SetKeys(state, [current_page |-> "login"])
    IN  IF ~LoggedIn(s) THEN show_login(s, click)
        ELSE IF click.kind = "sidebar"
                 /\ (click.page = "manager" => ManagerButton(s))
        THEN [state |-> SetKeys(s, [current_page |-> click.page]), rerun |-> TRUE,
              page |-> "none", message |-> "none", result |-> None]
        ELSE IF click.kind = "logout"
        \* every key is deleted
        THEN [state |-> << >>, rerun |-> TRUE,
              page |-> "none", message |-> "none", result |-> None]
        ELSE PageRouting(s, click, dashboard)

(***************************************************************************)
(* The snapshots: the three frames built once at import (lines 75-78).     *)
(***************************************************************************)
CheckIn(e, d, s, en, mo, we) ==
    [employee_id |-> e, date |-> d, stress |-> s, energy |-> en,
     motivation |-> mo, work_enjoyment |-> we]

Perf(e, m, k) == [employee_id |-> e, month |-> m, kpi |-> k]

\* The address local@domain.
Email(local, domain) == <<local, domain>>

Employee(i, dept, mail, mgr) ==
    [id |-> i, name |-> mail[1], department |-> dept, email |-> mail,
     manager |-> mgr]

\* Two Engineering employees, one Sales manager; nobody in Finance, no id 3.
Staff ==
    << Employee(1, "Engineering", Email("ann", "company.com"), FALSE),
       Employee(2, "Engineering", Email("bob", "example.org"), FALSE),
       Employee(0, "Sales", Email("cy", "company.com"), TRUE) >>

\* Rows around the classifier's thresholds, and one old row outside the week.
RiskRows ==
    {CheckIn(1, 32, p[1], p[2], 5, 5) :
        p \in {<<5, 5>>, <<7, 4>>, <<8, 5>>, <<5, 3>>, <<5, 4>>, <<7, 5>>, <<8, 3>>}}
        \cup {CheckIn(1, 20, 9, 2, 5, 5)}

\* Rows of one employee on days 2, 25 and 32 (30 and 7 days before day 32)
\* and a row of another on day 33 (31 and 8 days after days 2 and 25).
WindowRows ==
    {CheckIn(1, d, (d % 7) + 2, 5, 5, 5) : d \in {2, 25, 32}}
        \cup {CheckIn(2, 33, 9, 5, 5, 5)}

\* Rows of the three employees, two of them for the same employee and day.
ScopeRows ==
    {CheckIn(0, 32, 5, 5, 5, 5), CheckIn(1, 32, 2, 6, 5, 5),
     CheckIn(1, 32, 8, 6, 5, 5), CheckIn(2, 32, 8, 6, 5, 5)}

ScopePerfFrames ==
    { << >>,
      <<Perf(0, 1, 60), Perf(1, 1, 70), Perf(2, 2, 80), Perf(1, 2, 90)>> }

\* Check-in frames of one employee: none, January (day 25), February (day
\* 32), both months in either row order.
ChartFrames ==
    LET jan == CheckIn(1, 25, 5, 5, 5, 5)
        feb == CheckIn(1, 32, 6, 5, 5, 5)
    IN  {<< >>, <<jan>>, <<feb>>, <<jan, feb>>, <<feb, jan>>}

\* Performance rows of January and February, one of another employee.
ChartPerfRows ==
    {Perf(1, 1, 60), Perf(1, 1, 90), Perf(1, 2, 90), Perf(2, 1, 99)}

\* Rows of one day with (energy, motivation) giving the scores 7, 7.5, 5, 5
\* and 4.5, each with a stress of 5 and of 8.
MoodRows ==
    {CheckIn(1, 32, s, p[1], p[2], 5) :
        s \in {5, 8},
        p \in {<<9, 5>>, <<8, 7>>, <<5, 5>>, <<6, 4>>, <<4, 5>>}}

\* A staff with two rows of the same address (the first is no manager) and
\* a manager without a company address.
SessionStaff ==
    << Employee(1, "Engineering", Email("ann", "company.com"), FALSE),
       Employee(2, "Engineering", Email("bob", "example.org"), TRUE),
       Employee(3, "Sales", Email("cy", "company.com"), TRUE),
       Employee(4, "Sales", Email("ann", "company.com"), TRUE) >>

\* Check-in frames: nobody checked in, employee 1 did, employee 3 did,
\* employees 1 and 3 did.
SessionFrames ==
    { << >>,
      <<CheckIn(1, 32, 5, 5, 5, 5)>>,
      <<CheckIn(3, 32, 8, 3, 5, 5)>>,
      <<CheckIn(1, 32, 5, 5, 5, 5), CheckIn(3, 32, 8, 3, 5, 5)>> }

InitScope ==
    /\ employees_df = Staff
    /\ check_ins_df \in SeqsUpTo(ScopeRows, MaxScopeRows)
    /\ performance_df \in ScopePerfFrames
    /\ session_state = << >>
    /\ out = [op |-> "none"]

InitRisk ==
    /\ employees_df = Staff
    /\ check_ins_df \in SeqsUpTo(RiskRows, MaxRiskRows)
    /\ performance_df = <<Perf(1, 1, 60), Perf(1, 2, 90)>>
    /\ session_state = << >>
    /\ out = [op |-> "none"]

InitWindow ==
    /\ employees_df = Staff
    /\ check_ins_df \in SeqsUpTo(WindowRows, MaxWindowRows)
    /\ performance_df = <<Perf(1, 1, 60)>>
    /\ session_state = << >>
    /\ out = [op |-> "none"]

InitChart ==
    /\ employees_df = Staff
    /\ check_ins_df \in ChartFrames
    /\ performance_df \in SeqsUpTo(ChartPerfRows, MaxChartPerf)
    /\ session_state = << >>
    /\ out = [op |-> "none"]

InitMood ==
    /\ employees_df = Staff
    /\ check_ins_df \in SeqsUpTo(MoodRows, MaxMoodRows)
    /\ performance_df = <<Perf(1, 2, 60)>>
    /\ session_state = << >>
    /\ out = [op |-> "none"]

InitSession ==
    /\ employees_df = SessionStaff
    /\ check_ins_df \in SessionFrames
    /\ performance_df = <<Perf(1, 2, 60), Perf(3, 2, 80)>>
    /\ session_state = << >>
    /\ out = [op |-> "none"]

(***************************************************************************)
(* The operations.                                                         *)
(***************************************************************************)
\* The values a caller can pass: identifiers (3 names no employee) and
\* department names (nobody works in Finance).
IdArgs == {Some(0), Some(1), Some(2), Some(3)}
DeptArgs == {Some(""), Some("Engineering"), Some("Finance")}

\* The scope selectors: Employee(id), Department(name), Global.
ScopeArgs ==
    {<<i, None>> : i \in IdArgs} \cup {<<None, d>> : d \in DeptArgs}
        \cup {<<None, None>>}

\* datetime.now().month at the time of the call: the months the snapshots
\* hold performance rows for, and one they hold none for.
NowMonths == 1..3

\* A call calculate_metrics(employee_id, department).
CalculateMetrics ==
    \E scope \in ScopeArgs, now_month \in NowMonths :
        /\ out' = [op          |-> "calculate_metrics",
                   employee_id |-> scope[1],
                   department  |-> scope[2],
                   now_month   |-> now_month,
                   result      |-> calculate_metrics(scope[1], scope[2], now_month)]
        /\ UNCHANGED <<employees_df, check_ins_df, performance_df, session_state>>

\* A run of the dashboard page for a logged-in employee (line 773):
\* show_dashboard(current_employee_id, is_manager), with the department
\* select box at one of employees_df['department'].unique().
ShowDashboard ==
    \E i \in 1..Len(employees_df), now_month \in NowMonths,
       dept \in Range(Column(employees_df, "department")) :
        \* the select box exists in the team view only
        /\ TruthyInt(Some(employees_df[i].id)) => dept = employees_df[1].department
        /\ out' = [op          |-> "show_dashboard",
                   employee_id |-> Some(employees_df[i].id),
                   is_manager  |-> employees_df[i].manager,
                   now_month   |-> now_month,
                   result      |-> show_dashboard(Some(employees_df[i].id),
                                                  employees_df[i].manager,
                                                  dept, now_month)]
        /\ check_ins_df' = CheckInsAfterDashboard(out'.result)
        /\ UNCHANGED <<employees_df, performance_df, session_state>>

Next == CalculateMetrics \/ ShowDashboard

Spec == InitScope /\ [][Next]_vars
SpecRisk == InitRisk /\ [][Next]_vars
SpecWindow == InitWindow /\ [][Next]_vars
SpecChart == InitChart /\ [][Next]_vars
SpecMood == InitMood /\ [][Next]_vars

\* The text typed in the login form: the address of a non-manager (first of
\* two rows), of a manager, of an employee outside company.com and of nobody.
EmailInputs ==
    {Email("ann", "company.com"), Email("cy", "company.com"),
     Email("bob", "example.org"), Email("zed", "company.com")}
PasswordInputs == {"password", "secret"}

\* The page the last script run drew, and whether it drew the sidebar.
Rendered == IF out.op = "main" THEN out.page ELSE "none"
SidebarDrawn == Rendered \notin {"none", "login"}

\* A script run of main with the given click, followed, if it ends in
\* st.rerun(), by the run this starts.
PageRun(click) ==
    \E now_month \in NowMonths, dept \in Range(Column(employees_df, "department")) :
        \E dashboard \in {[id \in Range(Column(employees_df, "id")),
                            is_manager \in BOOLEAN |->
                               show_dashboard(Some(id), is_manager, dept, now_month)]} :
        \E first \in {main(session_state, click, dashboard)} :
        \E last \in {IF first.rerun THEN main(first.state, NoClick, dashboard)
                      ELSE first} :
            \* the select box exists in the team view only
            /\ (last.result = None \/ last.result[1].view /= "team")
                   => dept = employees_df[1].department
            /\ session_state' = last.state
            /\ out' = [op |-> "main", click |-> click, page |-> last.page,
                       message |-> last.message, result |-> last.result]
            /\ check_ins_df' = IF last.result = None THEN check_ins_df
                               ELSE CheckInsAfterDashboard(last.result[1])
            /\ UNCHANGED <<employees_df, performance_df>>

\* The page is opened or reloaded.
Load ==
    /\ PageRun(NoClick)

\* The Login button of the login page.
Login ==
    /\ Rendered = "login"
    /\ \E email \in EmailInputs, password \in PasswordInputs :
           PageRun([kind |-> "login", email |-> email, password |-> password])

\* A page button of the sidebar.
Navigate ==
    /\ SidebarDrawn
    /\ \E page \in SidebarPages :
           /\ page = "manager" => ManagerButton(session_state)
           /\ PageRun([kind |-> "sidebar", page |-> page])

\* A quick action of the dashboard; the buttons are drawn once the metrics
\* are computed.
QuickAction ==
    /\ Rendered = "dashboard"
    /\ out.result /= None
    /\ out.result[1].metrics.error = "none"
    /\ \E page \in QuickPages : PageRun([kind |-> "quick", page |-> page])

\* The Submit button of the check-in form.
SubmitCheckIn ==
    /\ Rendered = "check_in"
    /\ PageRun([kind |-> "submit"])

\* The Logout button of the sidebar.
Logout ==
    /\ SidebarDrawn
    /\ PageRun([kind |-> "logout"])

NextSession ==
    Load \/ Login \/ Navigate \/ QuickAction \/ SubmitCheckIn \/ Logout

SpecSession == InitSession /\ [][NextSession]_vars

(***************************************************************************)
(* Properties.                                                             *)
(***************************************************************************)
\* The calculate_metrics calls whose outcome the state holds: the call itself,
\* or the one show_dashboard made first.
MetricsResults ==
    IF out.op = "calculate_metrics" THEN {out.result}
    ELSE IF out.op = "show_dashboard" THEN {out.result.metrics}
    ELSE {}

\* The calls that returned a bundle.
Bundles == {m \in MetricsResults : m.error = "none"}

\* Number of positions of a frame holding the row r.
Count(frame, r) == Cardinality({i \in 1..Len(frame) : frame[i] = r})

\* Sum of a column over the rows of a frame at the positions idx.
RECURSIVE SumAt(_, _, _)
SumAt(frame, col, idx) ==
    IF idx = {} THEN 0
    ELSE LET i == CHOOSE j \in idx : TRUE
         IN  frame[i][col] + SumAt(frame, col, idx \ {i})

AllPositions(frame) == 1..Len(frame)

\* C1: the burnout risk of every returned bundle follows the rule table on the
\* weekly averages (total / number of rows of the weekly window): High if
\* stress > 7 or energy < 4, else Moderate if stress > 5 or energy < 5, else
\* Low; all comparisons strict, so stress = 7 with energy = 4 is Moderate and
\* stress <= 5 with energy >= 5 is Low.
C1_BurnoutRuleTable ==
    \A m \in Bundles :
        LET w      == m.weekly_check_ins
            n      == Len(w)
            stress == SumAt(w, "stress", AllPositions(w))
            energy == SumAt(w, "energy", AllPositions(w))
            high   == stress > 7 * n \/ energy < 4 * n
            mod    == stress > 5 * n \/ energy < 5 * n
        IN  /\ n > 0
            /\ (m.burnout_risk = "High") <=> high
            /\ (m.burnout_risk = "Moderate") <=> (~high /\ mod)
            /\ (m.burnout_risk = "Low") <=> (~high /\ ~mod)
            /\ (stress = 7 * n /\ energy = 4 * n) => m.burnout_risk = "Moderate"
            /\ (stress <= 5 * n /\ energy >= 5 * n) => m.burnout_risk = "Low"

\* A bundle over a two-row week whose averages sit exactly on stress = 7 and
\* energy = 4, classified Moderate.
C1_Witness ==
    \E m \in Bundles :
        /\ Len(m.weekly_check_ins) = 2
        /\ m.weekly_avg.stress.sum = 7 * 2
        /\ m.weekly_avg.energy.sum = 4 * 2
        /\ m.burnout_risk = "Moderate"

\* C2: for every non-empty scoped collection the anchor is the largest date
\* of the scoped rows, and the 7-day and the 30-day window hold exactly the
\* scoped rows dated anchor - k or later (each as often as the scoped
\* collection holds it), the anchor's own rows among them.
C2_AnchorAndWindows ==
    \A m \in Bundles :
        LET scoped == m.emp_check_ins
            anchor == m.latest_date
            Exact(window, k) ==
                \A r \in Range(scoped) \cup Range(window) :
                    Count(window, r) =
                        IF r.date + k >= anchor THEN Count(scoped, r) ELSE 0
        IN  /\ \E i \in 1..Len(scoped) : scoped[i].date = anchor
            /\ \A i \in 1..Len(scoped) : scoped[i].date <= anchor
            /\ Exact(m.weekly_check_ins, 7)
            /\ Exact(m.monthly_check_ins, 30)
            /\ \A i \in 1..Len(scoped) :
                   scoped[i].date = anchor =>
                       /\ scoped[i] \in Range(m.weekly_check_ins)
                       /\ scoped[i] \in Range(m.monthly_check_ins)

\* A bundle of one employee whose anchor is older than the newest check-in of
\* the frame, with a row dated exactly anchor - 7 inside the weekly window.
C2_Witness ==
    \E m \in Bundles :
        /\ \E i \in 1..Len(check_ins_df) : check_ins_df[i].date > m.latest_date
        /\ \E i \in 1..Len(m.weekly_check_ins) :
               m.weekly_check_ins[i].date = m.latest_date - 7

\* A bundle whose monthly window holds a row dated exactly anchor - 30 that
\* the weekly window leaves out.
C2_WitnessMonth ==
    \E m \in Bundles :
        \E i \in 1..Len(m.monthly_check_ins) :
            /\ m.monthly_check_ins[i].date = m.latest_date - 30
            /\ m.monthly_check_ins[i] \notin Range(m.weekly_check_ins)

\* Whether employee emp belongs to the scope a selector names: Employee(id)
\* when an identifier is passed, Department(name) when a name is, else Global.
InScope(employee_id, department, emp) ==
    IF employee_id /= None THEN emp = employee_id[1]
    ELSE IF department /= None
         THEN \E i \in 1..Len(employees_df) :
                  /\ employees_df[i].id = emp
                  /\ employees_df[i].department = department[1]
         ELSE TRUE

\* A selector that names no employee of employees_df.
UnknownScope(employee_id, department) ==
    \A i \in 1..Len(employees_df) :
        ~InScope(employee_id, department, employees_df[i].id)

\* C3: for every selector, identifier 0 and the empty name included, the
\* scoped check-ins and the scoped performance records of calculate_metrics
\* are exactly the rows whose employee belongs to the scope.
C3_ScopeResolution ==
    out.op = "calculate_metrics" =>
        /\ out.result.emp_check_ins =
               SelectSeq(check_ins_df,
                         LAMBDA r : InScope(out.employee_id, out.department,
                                            r.employee_id))
        /\ out.result.emp_performance =
               SelectSeq(performance_df,
                         LAMBDA r : InScope(out.employee_id, out.department,
                                            r.employee_id))

\* C4: two successive calculate_metrics calls with the same snapshot and the
\* same scope return the same outcome, whatever the wall clock reads at each.
C4_Deterministic ==
    [][(/\ out.op = "calculate_metrics"
        /\ out'.op = "calculate_metrics"
        /\ out'.employee_id = out.employee_id
        /\ out'.department = out.department)
       => out'.result = out.result]_vars

\* C5: a selector that names no employee makes calculate_metrics fail with
\* UnknownScopeError.  (Stated for the selectors that reach a filter: an
\* identifier other than 0, a name other than the empty one.)
C5_UnknownScopeError ==
    (/\ out.op = "calculate_metrics"
     /\ UnknownScope(out.employee_id, out.department)
     /\ TruthyInt(out.employee_id) \/ TruthyStr(out.department))
        => out.result.error = "UnknownScopeError"

\* C6: a selector that names an employee, with an empty scoped check-in
\* collection, makes calculate_metrics fail with EmptyScopeError.
C6_EmptyScopeError ==
    (/\ out.op = "calculate_metrics"
     /\ ~UnknownScope(out.employee_id, out.department)
     /\ out.result.emp_check_ins = << >>)
        => out.result.error = "EmptyScopeError"

Signals == {"stress", "energy", "motivation", "work_enjoyment"}

\* Total and number of rows of a window, added up employee by employee.
RECURSIVE TotalsByEmployee(_, _, _)
TotalsByEmployee(window, col, ids) ==
    IF ids = {} THEN [sum |-> 0, n |-> 0]
    ELSE LET e    == CHOOSE x \in ids : TRUE
             at   == {i \in 1..Len(window) : window[i].employee_id = e}
             rest == TotalsByEmployee(window, col, ids \ {e})
         IN  [sum |-> SumAt(window, col, at) + rest.sum,
              n   |-> Cardinality(at) + rest.n]

\* Equality of two fractions.
SameValue(a, b) == a.sum * b.n = b.sum * a.n

\* C7: each weekly and monthly average is the pooled mean of its window: the
\* employees' totals added up, divided by their row counts added up, so each
\* employee weighs in proportion to the number of rows.
C7_PooledMean ==
    \A m \in Bundles : \A col \in Signals :
        LET Pooled(window, avg) ==
                LET t == TotalsByEmployee(window, col,
                                          Range(Column(window, "employee_id")))
                IN  avg.n > 0 /\ t.n > 0 /\ SameValue(avg, t)
        IN  /\ Pooled(m.weekly_check_ins, m.weekly_avg[col])
            /\ Pooled(m.monthly_check_ins, m.monthly_avg[col])

\* A department bundle over two employees with two rows and one row in the
\* week, whose pooled stress average differs from the mean of their means.
C7_Witness ==
    /\ out.op = "calculate_metrics"
    /\ out.department = Some("Engineering")
    /\ out.result.error = "none"
    /\ LET w == out.result.weekly_check_ins
       IN  /\ Cardinality({i \in 1..Len(w) : w[i].employee_id = 1}) = 2
           /\ Cardinality({i \in 1..Len(w) : w[i].employee_id = 2}) = 1
           /\ ~SameValue(out.result.weekly_avg.stress, MeanOfMeans(w, "stress"))

\* The positions of the scoped rows dated anchor - k or later.
WindowPositions(m, k) ==
    {i \in 1..Len(m.emp_check_ins) : m.emp_check_ins[i].date + k >= m.latest_date}

\* C8: no deduplication: every scoped row of the window, the repeated records
\* of one employee and day included, is one row of the weekly and of the
\* monthly average (one unit of its count, its value in its total).
C8_NoDeduplication ==
    \A m \in Bundles : \A col \in Signals :
        /\ m.weekly_avg[col].n = Cardinality(WindowPositions(m, 7))
        /\ m.weekly_avg[col].sum = SumAt(m.emp_check_ins, col, WindowPositions(m, 7))
        /\ m.monthly_avg[col].n = Cardinality(WindowPositions(m, 30))
        /\ m.monthly_avg[col].sum = SumAt(m.emp_check_ins, col, WindowPositions(m, 30))

\* A bundle whose week holds two records of the same employee and day with
\* different stress: both count, and the average is not the first record's.
C8_Witness ==
    \E m \in Bundles :
        LET w == m.weekly_check_ins
        IN  /\ Len(w) = 2
            /\ w[1].employee_id = w[2].employee_id
            /\ w[1].date = w[2].date
            /\ w[1].stress /= w[2].stress
            /\ m.weekly_avg.stress.n = 2
            /\ m.weekly_avg.stress.sum /= 2 * w[1].stress

\* The runs of the dashboard that reached the individual view.
IndividualCharts ==
    IF out.op = "show_dashboard" /\ out.result.view = "individual"
    THEN {out.result.chart} ELSE {}

\* C9: the joined series of the individual view holds a row for month mth if
\* and only if the employee has a check-in dated in mth and a performance
\* record of month mth.
C9_InnerJoin ==
    \A c \in IndividualCharts : \A mth \in 1..12 :
        (\E i \in 1..Len(c.merged_data) : c.merged_data[i].month = mth)
        <=>
        (/\ \E i \in 1..Len(check_ins_df) :
                /\ check_ins_df[i].employee_id = out.employee_id[1]
                /\ MonthOf(check_ins_df[i].date) = mth
         /\ \E i \in 1..Len(performance_df) :
                /\ performance_df[i].employee_id = out.employee_id[1]
                /\ performance_df[i].month = mth)

\* An individual view with a joined row, where a month the employee checked
\* in has no performance record and is absent from the series.
C9_Witness ==
    \E c \in IndividualCharts :
        /\ c.merged_data /= << >>
        /\ \E i \in 1..Len(check_ins_df) :
               /\ check_ins_df[i].employee_id = out.employee_id[1]
               /\ \A j \in 1..Len(c.merged_data) :
                      c.merged_data[j].month /= MonthOf(check_ins_df[i].date)

\* C10: the peak marker is a month of the joined series with a row of maximal
\* kpi, and the smallest such month.
C10_PeakMonth ==
    \A c \in IndividualCharts :
        c.error = "none" =>
            LET md     == c.merged_data
                IsMax(i) == \A j \in 1..Len(md) : md[j].kpi <= md[i].kpi
            IN  /\ \E i \in 1..Len(md) :
                       md[i].month = c.max_kpi_month /\ IsMax(i)
                /\ \A i \in 1..Len(md) :
                       IsMax(i) => c.max_kpi_month <= md[i].month

\* An individual view whose joined series has two months with the same,
\* maximal kpi; the marker is the earlier one.
C10_Witness ==
    \E c \in IndividualCharts :
        /\ c.error = "none"
        /\ \E i, j \in 1..Len(c.merged_data) :
               /\ c.merged_data[i].month < c.merged_data[j].month
               /\ c.merged_data[i].kpi = c.merged_data[j].kpi
               /\ \A k \in 1..Len(c.merged_data) :
                      c.merged_data[k].kpi <= c.merged_data[i].kpi
               /\ c.max_kpi_month = c.merged_data[i].month

\* C11: when the single-employee join keeps no period, the individual view
\* ends with the recoverable InsufficientDataError (the metrics stay
\* available and the chart is left out) and not with a fault raised while
\* the peak marker is computed.
C11_InsufficientDataError ==
    \A c \in IndividualCharts :
        c.merged_data = << >> => c.error = "InsufficientDataError"

\* The columns of a check-in row of the snapshot.
CheckInColumns ==
    {"employee_id", "date", "stress", "energy", "motivation", "work_enjoyment"}

\* C12: a call of calculate_metrics or a build of the correlated series
\* leaves employees_df, check_ins_df and performance_df with the same rows
\* and fields; the derived month and week columns are columns of the scoped
\* working frames only.
C12_SnapshotUnchanged ==
    [][/\ employees_df' = employees_df
       /\ check_ins_df' = check_ins_df
       /\ performance_df' = performance_df
       /\ \A i \in 1..Len(check_ins_df') :
              DOMAIN check_ins_df'[i] = CheckInColumns
       /\ out'.op = "show_dashboard" /\ out'.result.view = "individual" =>
              \A i \in 1..Len(out'.result.chart.emp_check_ins) :
                  "month" \in DOMAIN out'.result.chart.emp_check_ins[i]
       /\ out'.op = "show_dashboard" /\ out'.result.view = "team"
             /\ out'.result.chart.error = "none" =>
              \A i \in 1..Len(out'.result.chart.dept_check_ins) :
                  "week" \in DOMAIN out'.result.chart.dept_check_ins[i]]_vars

\* An individual view was built from a working frame that has a row with the
\* month column, and the rows of check_ins_df are as they were.
C12_Witness ==
    /\ out.op = "show_dashboard"
    /\ out.result.view = "individual"
    /\ out.result.error = "none"
    /\ out.result.chart.emp_check_ins /= << >>
    /\ \A i \in 1..Len(out.result.chart.emp_check_ins) :
           out.result.chart.emp_check_ins[i].month =
               MonthOf(out.result.chart.emp_check_ins[i].date)
    /\ \A i \in 1..Len(check_ins_df) : DOMAIN check_ins_df[i] = CheckInColumns

\* The dashboards whose top row was drawn.
Dashboards ==
    IF out.op = "show_dashboard" /\ out.result.metrics.error = "none"
    THEN {out.result} ELSE {}

\* C13: the mood bucket is fixed by the energy and motivation values of the
\* weekly window alone: with E and M their sums over the n rows, the score
\* (E/n + M/n)/2 is above 7 iff E + M > 14n and above 5 iff E + M > 10n; the
\* top bucket is score > 7, the middle one 5 < score <= 7, the bottom one
\* score <= 5.
C13_MoodBucket ==
    \A d \in Dashboards :
        LET wk == d.metrics.weekly_check_ins
            EM == SumSeq(Column(wk, "energy")) + SumSeq(Column(wk, "motivation"))
            n  == Len(wk)
        IN  /\ n > 0
            /\ d.mood_emoji = "smile" <=> EM > 14 * n
            /\ d.mood_emoji = "neutral" <=> (EM > 10 * n /\ EM <= 14 * n)
            /\ d.mood_emoji = "sad" <=> EM <= 10 * n

\* A dashboard whose mood score is exactly 7 over two rows, in the middle
\* bucket, while the burnout risk is High.
C13_Witness ==
    \E d \in Dashboards :
        LET wk == d.metrics.weekly_check_ins
        IN  /\ Len(wk) = 2
            /\ SumSeq(Column(wk, "energy")) + SumSeq(Column(wk, "motivation")) = 28
            /\ d.mood_emoji = "neutral"
            /\ d.metrics.burnout_risk = "High"

\* C14: a page other than the login page is drawn only for a session whose
\* logged_in is true; logged_in becomes true only in a step that is a press
\* of Login with an address ending in @company.com, the password
\* 'password' and an employee row of that address; a press of Logout leaves
\* no key but current_page, set to 'login' by the run that follows, which
\* draws the login page.
C14_LoginGate ==
    [][/\ Rendered' \notin {"none", "login"} => LoggedIn(session_state')
       /\ ~LoggedIn(session_state) /\ LoggedIn(session_state') =>
              /\ out'.click.kind = "login"
              /\ out'.click.email[2] = "company.com"
              /\ out'.click.password = "password"
              /\ \E i \in 1..Len(employees_df) :
                     employees_df[i].email = out'.click.email
       /\ out'.op = "main" /\ out'.click.kind = "logout" =>
              /\ DOMAIN session_state' = {"current_page"}
              /\ session_state'.current_page = "login"
              /\ Rendered' = "login"]_vars

\* A session logged in by a press of Login, its dashboard drawn.
C14_Witness ==
    /\ out.op = "main"
    /\ out.click.kind = "login"
    /\ LoggedIn(session_state)
    /\ Rendered = "dashboard"

\* C15: current_page is 'manager', and the manager view is drawn, only in a
\* session whose is_manager is true; the flag is the manager column of the
\* employee row the login found and stays as set until the session's keys
\* are deleted.
C15_ManagerOnly ==
    [][/\ ("current_page" \in DOMAIN session_state'
              /\ session_state'.current_page = "manager")
          \/ Rendered' = "manager"
          => LoggedIn(session_state') /\ session_state'.is_manager = TRUE
       /\ ~LoggedIn(session_state) /\ LoggedIn(session_state') =>
              LET emp == SelectSeq(employees_df,
                                   LAMBDA e : e.email = out'.click.email)
              IN  /\ session_state'.is_manager = emp[1].manager
                  /\ session_state'.current_employee_id = emp[1].id
       /\ LoggedIn(session_state) /\ LoggedIn(session_state') =>
              /\ session_state'.is_manager = session_state.is_manager
              /\ session_state'.current_employee_id
                     = session_state.current_employee_id]_vars

\* The manager view drawn in a manager's session.
C15_Witness ==
    /\ Rendered = "manager"
    /\ session_state.current_page = "manager"
    /\ session_state.is_manager

\* A non-manager's session after a press of a quick action of the dashboard
\* and after the redirect of the check-in form.
C15_WitnessNonManager ==
    /\ LoggedIn(session_state)
    /\ ~session_state.is_manager
    /\ out.op = "main"
    /\ out.click.kind \in {"quick", "submit"}

====
